---- MODULE Spec2Model ----
(***************************************************************************)
(* A model of google_places_enrichment.py: the command line entry point    *)
(* main, the batch loop of enrich_file and the pure helpers it calls       *)
(* (clean_input_dataframe, build_query, text_search,                       *)
(* extract_address_components, place_details).                             *)
(*                                                                         *)
(* Python strings are sequences of one-character strings, so that strip,   *)
(* join, slicing and prefix tests are computed, not assumed.  The two      *)
(* non-string values a cell or a JSON field can hold are the one-element   *)
(* sequences None and NaN, which no Python string equals.                  *)
(***************************************************************************)
EXTENDS Integers, Sequences, FiniteSets, TLC

\* ------------------------------------------------------------------ bounds
MaxRows == 2          \* rows of the input table (Spec)
MaxRerunRows == 1     \* rows of the input table (SpecRerun)
MaxRuns == 2          \* runs of the program in a row (SpecRerun)
MaxComps == 2         \* raw address components of one response (SpecAddr)
LongMsgLen == 245     \* length of the long exception message ("ERROR:" + it = 251)

\* ------------------------------------------------------- program constants
StatusWidth == 250    \* f"ERROR:{exc}"[:250]

\* ---------------------------------------------------------------- strings
None == <<"None">>
NaN == <<"NaN">>

S_empty == <<>>
S_nan == <<"n", "a", "n">>
S_sep == <<",", " ">>
S_space == <<" ">>
S_www == <<"w", "w", "w", ".">>
S_OK == <<"O", "K">>
S_PARTIAL == <<"P", "A", "R", "T", "I", "A", "L">>
S_NOT_FOUND == <<"N", "O", "T", "_", "F", "O", "U", "N", "D">>
S_EMPTY_NAME == <<"E", "M", "P", "T", "Y", "_", "N", "A", "M", "E">>
S_ERROR == <<"E", "R", "R", "O", "R", ":">>

Min(a, b) == IF a < b THEN a ELSE b

\* str(v): a string is itself, float('nan') prints as "nan".
str(v) == IF v = NaN THEN S_nan ELSE v

\* bool(v) for the values the program tests: None and "" are false.
truthy(v) == v # None /\ v # S_empty

\* v or "".
orEmpty(v) == IF truthy(v) THEN v ELSE S_empty

RECURSIVE lstrip(_)
lstrip(s) == IF s # <<>> /\ Head(s) = " " THEN lstrip(Tail(s)) ELSE s

RECURSIVE rstrip(_)
rstrip(s) ==
    IF s # <<>> /\ s[Len(s)] = " " THEN rstrip(SubSeq(s, 1, Len(s) - 1)) ELSE s

\* s.strip()
strip(s) == rstrip(lstrip(s))

\* sep.join(parts)
RECURSIVE join(_, _)
join(sep, parts) ==
    IF parts = <<>> THEN <<>>
    ELSE IF Len(parts) = 1 THEN parts[1]
    ELSE parts[1] \o sep \o join(sep, Tail(parts))

\* s[:n]
slice(s, n) == SubSeq(s, 1, Min(Len(s), n))

\* s.startswith(p)
startswith(s, p) == Len(s) >= Len(p) /\ SubSeq(s, 1, Len(p)) = p

\* s.removeprefix(p)
removeprefix(s, p) == IF startswith(s, p) THEN SubSeq(s, Len(p) + 1, Len(s)) ELSE s

\* s.find(c) for a one-character c, 1-based; 0 when c does not occur.
find(s, c) ==
    IF \E i \in 1..Len(s) : s[i] = c
    THEN CHOOSE i \in 1..Len(s) : s[i] = c /\ \A j \in 1..(i - 1) : s[j] # c
    ELSE 0

\* ------------------------------------------------------------ the tables
\* A table is [cols |-> set of column names, rows |-> sequence of rows], a
\* row a function from the table's columns to cells.  In a file every cell
\* is a string; in a DataFrame a cell is a string or NaN.
OutputCols ==
    <<"phone_number", "domain", "street", "city", "zip_code", "country", "status">>

DetailCols == {"phone_number", "domain", "street", "city", "zip_code", "country"}

\* The column names of the modelled inputs that match one of junk_patterns
\* (re.search, IGNORECASE): "flex 2" contains "flex".
junk(col) == col \in {"flex 2"}

\* rename_map
rename(col) ==
    IF col = "Company" THEN "Company Name"
    ELSE IF col = "flex 2" THEN "City"
    ELSE col

\* df[col] = value, a new column holding value in every row.
add_column(df, col, value) ==
    [cols |-> df.cols \cup {col},
     rows |-> [i \in 1..Len(df.rows) |->
                 [c \in df.cols \cup {col} |->
                    IF c = col THEN value ELSE df.rows[i][c]]]]

clean_input_dataframe(df) ==
    LET cleaned_columns == {c \in df.cols : ~junk(c)}
        renamed == {rename(c) : c \in cleaned_columns}
        old(c2) == CHOOSE c \in cleaned_columns : rename(c) = c2
        df2 == [cols |-> renamed,
                rows |-> [i \in 1..Len(df.rows) |->
                            [c2 \in renamed |-> df.rows[i][old(c2)]]]]
    IN  IF "Country" \notin df2.cols THEN add_column(df2, "Country", S_empty)
        ELSE df2

\* pd.read_csv / pd.read_excel: an empty field is read as NaN.
read_table(file) ==
    [cols |-> file.cols,
     rows |-> [i \in 1..Len(file.rows) |->
                 [c \in file.cols |->
                    IF file.rows[i][c] = S_empty THEN NaN ELSE file.rows[i][c]]]]

\* df.to_csv / df.to_excel: NaN is written as an empty field.
write_table(df) ==
    [cols |-> df.cols,
     rows |-> [i \in 1..Len(df.rows) |->
                 [c \in df.cols |->
                    IF df.rows[i][c] = NaN THEN S_empty ELSE df.rows[i][c]]]]

\* The loop over OutputCols adding each missing column as "".
RECURSIVE add_output_columns(_, _)
add_output_columns(df, cols) ==
    IF cols = <<>> THEN df
    ELSE add_output_columns(
             IF Head(cols) \notin df.cols THEN add_column(df, Head(cols), S_empty)
             ELSE df,
             Tail(cols))

\* row.get(col, "")
get(row, col) == IF col \in DOMAIN row THEN row[col] ELSE S_empty

\* df.at[idx, col] = value
at(df, idx, col, value) == [df EXCEPT !.rows[idx][col] = value]

\* --------------------------------------------------------- build_query
RECURSIVE context_parts(_, _)
context_parts(row, context_cols) ==
    IF context_cols = <<>> THEN <<>>
    ELSE LET val == strip(str(get(row, Head(context_cols))))
         IN  (IF truthy(val) THEN <<val>> ELSE <<>>)
                 \o context_parts(row, Tail(context_cols))

build_query(row, company_col, context_cols) ==
    join(S_sep, <<strip(str(get(row, company_col)))>>
                    \o context_parts(row, context_cols))

\* ----------------------------------------------------------- text_search
\* data is the decoded response, [status, results], results a sequence of
\* place identifiers.
text_search(data) ==
    IF data.status # "OK" \/ data.results = <<>> THEN None
    ELSE data.results[1]

\* -------------------------------------------- extract_address_components
\* Mutant: a value once assigned is kept (first occurrence wins).
classify_component_first(acc, comp) ==
    IF "street_number" \in comp.types
    THEN IF acc.street_number = None THEN [acc EXCEPT !.street_number = comp.long_name]
         ELSE acc
    ELSE IF "route" \in comp.types
    THEN IF acc.route = None THEN [acc EXCEPT !.route = comp.long_name] ELSE acc
    ELSE IF "locality" \in comp.types
    THEN IF acc.city = S_empty THEN [acc EXCEPT !.city = comp.long_name] ELSE acc
    ELSE IF "postal_code" \in comp.types
    THEN IF acc.zip_code = S_empty THEN [acc EXCEPT !.zip_code = comp.long_name] ELSE acc
    ELSE IF "country" \in comp.types
    THEN IF acc.country = S_empty THEN [acc EXCEPT !.country = comp.long_name] ELSE acc
    ELSE acc

\* One pass of the loop body over comp, acc the five values it assigns.
classify_component(acc, comp) ==
    IF "street_number" \in comp.types THEN [acc EXCEPT !.street_number = comp.long_name]
    ELSE IF "route" \in comp.types THEN [acc EXCEPT !.route = comp.long_name]
    ELSE IF "locality" \in comp.types THEN [acc EXCEPT !.city = comp.long_name]
    ELSE IF "postal_code" \in comp.types THEN [acc EXCEPT !.zip_code = comp.long_name]
    ELSE IF "country" \in comp.types THEN [acc EXCEPT !.country = comp.long_name]
    ELSE acc

RECURSIVE scan_components(_, _)
scan_components(acc, components) ==
    IF components = <<>> THEN acc
    ELSE scan_components(classify_component(acc, Head(components)), Tail(components))

extract_address_components(components) ==
    LET acc == scan_components(
                   [street_number |-> None, route |-> None, city |-> S_empty,
                    zip_code |-> S_empty, country |-> S_empty],
                   components)
        parts == (IF truthy(acc.street_number) THEN <<acc.street_number>> ELSE <<>>)
                     \o (IF truthy(acc.route) THEN <<acc.route>> ELSE <<>>)
    IN  [street |-> IF truthy(acc.street_number) \/ truthy(acc.route)
                    THEN join(S_space, parts) ELSE S_empty,
         city |-> acc.city,
         zip_code |-> acc.zip_code,
         country |-> acc.country]

\* --------------------------------------------------------- place_details
Alpha ==
    {"a", "b", "c", "d", "e", "f", "g", "h", "i", "j", "k", "l", "m", "n", "o",
     "p", "q", "r", "s", "t", "u", "v", "w", "x", "y", "z"}

SchemeChars == Alpha \cup {"0", "1", "2", "3", "4", "5", "6", "7", "8", "9", "+", "-", "."}

\* urllib.parse.urlparse(url).netloc: the scheme up to the first ":" is
\* split off when it is made of scheme characters, and the netloc is what
\* follows a leading "//" up to the first "/", "?" or "#".
netloc(url) ==
    LET i == find(url, ":")
        isScheme == i > 1 /\ url[1] \in Alpha
                        /\ \A j \in 1..(i - 1) : url[j] \in SchemeChars
        rest == IF isScheme THEN SubSeq(url, i + 1, Len(url)) ELSE url
        ends == {j \in 3..Len(rest) : rest[j] \in {"/", "?", "#"}}
        delim == IF ends = {} THEN Len(rest) + 1
                 ELSE CHOOSE j \in ends : \A k \in ends : j <= k
    IN  IF startswith(rest, <<"/", "/">>) THEN SubSeq(rest, 3, delim - 1)
        ELSE S_empty

\* result is the "result" object of the response: [phone, website,
\* address_components], an absent key being None (<<>> for the components).
place_details(result) ==
    [phone |-> result.phone,
     domain |-> IF truthy(result.website)
                THEN removeprefix(netloc(result.website), S_www)
                ELSE None,
     address |-> extract_address_components(result.address_components)]

\* Mutant: the address is left out of the test.
classify_no_address(phone, domain, address) ==
    IF truthy(phone) \/ truthy(domain) THEN S_OK ELSE S_PARTIAL

\* "OK" if phone or domain or any(address.values()) else "PARTIAL"
classify(phone, domain, address) ==
    IF truthy(phone) \/ truthy(domain)
          \/ \E k \in DOMAIN address : truthy(address[k])
    THEN S_OK ELSE S_PARTIAL

\* Mutant: the message is not cut.
error_status_uncut(msg) == S_ERROR \o msg

\* f"ERROR:{exc}"[:250]
error_status(msg) == slice(S_ERROR \o msg, StatusWidth)

\* ------------------------------------------------------------- the state
VARIABLES
    argv,       \* the parsed command line: api_key, in_ext, out_ext, context
    infile,     \* the table in the input file
    outfile,    \* the table in the output file, NoTable while there is none
    df,         \* the DataFrame of the running enrich_file
    pc,         \* where the process is: main, load, row, details, sleep, write, exit
    idx,        \* the row the batch loop is at
    pid,        \* the place identifier text_search returned for that row
    exit,       \* how the process ended, "" while it runs
    log,        \* what this run did so far: requests, statuses, delays, writes
    run,        \* the number of this run
    prevOut,    \* the output file as the previous run left it
    memo,       \* per row, the query and the answers the service gave last
    acIn,       \* SpecAddr: the raw components handed to the normalizer
    acOut       \* SpecAddr: its result

vars ==
    <<argv, infile, outfile, df, pc, idx, pid, exit, log, run, prevOut, memo,
      acIn, acOut>>

NoTable == [cols |-> {}, rows |-> <<>>]

\* ------------------------------------------------------------ the inputs
Names == {<<" ">>, <<"A", " ">>}
Cities == {<<"B">>}
RerunCities == {<<>>, <<"B">>}
Shapes == {"plain", "scraped", "noname"}
Contexts == {<<>>, <<"City">>}
RerunContexts == {<<>>, <<"City">>, <<"City", "Country">>}
Exts == {".csv", ".txt"}
ApiKeys == {None, <<"k">>}

ShapeCols(shape) ==
    IF shape = "plain" THEN {"Company Name", "City"}
    ELSE IF shape = "noname" THEN {"Name", "City"}
    ELSE {"Company", "City", "flex 2"} \cup {OutputCols[k] : k \in DOMAIN OutputCols}

\* What a table enriched or filled in earlier holds in the output columns.
OldValue(col) ==
    IF col = "status" THEN S_OK
    ELSE IF col = "phone_number" THEN <<"9">>
    ELSE IF col = "domain" THEN <<"o", ".", "c">>
    ELSE <<"v">>

FileRow(shape, name, city) ==
    [c \in ShapeCols(shape) |->
        IF c \in {"Company Name", "Company", "Name"} THEN name
        ELSE IF c = "City" THEN city
        ELSE IF c = "flex 2" THEN <<"j">>
        ELSE OldValue(c)]

InputFiles(maxRows, cities) ==
    UNION {
        {[cols |-> ShapeCols(sh),
          rows |-> [i \in 1..n |-> FileRow(sh, f[i][1], f[i][2])]]
            : f \in [1..n -> Names \X cities]}
        : sh \in Shapes, n \in 0..maxRows}

LongMsg == [i \in 1..LongMsgLen |-> "x"]
Msgs == {<<"t">>, LongMsg}

SearchData ==
    {[status |-> "OK", results |-> <<<<"p">>, <<"q">>>>],
     [status |-> "ZERO_RESULTS", results |-> <<>>]}

W_full == <<"h", "t", "t", "p", "s", ":", "/", "/", "w", "w", "w", ".", "e", ".", "c", "/", "p">>
W_bare == <<"e", ".", "c">>

Comp(types, long_name) == [types |-> types, long_name |-> long_name]

DetailsData ==
    {[phone |-> None, website |-> None, address_components |-> <<>>],
     [phone |-> <<"+", "1">>, website |-> None, address_components |-> <<>>],
     [phone |-> None, website |-> W_full, address_components |-> <<>>],
     [phone |-> None, website |-> W_bare,
      address_components |-> <<Comp({"locality", "political"}, <<"B">>)>>],
     [phone |-> <<>>, website |-> W_bare, address_components |-> <<>>]}

NoData == [status |-> "", results |-> <<>>]
NoResult == [phone |-> None, website |-> None, address_components |-> <<>>]

\* An answer of the service to one request: the call raises exc(msg), or
\* returns the decoded JSON.
Raises(msg) == [raise |-> TRUE, msg |-> msg, data |-> NoData, result |-> NoResult]
SearchReturns(data) == [raise |-> FALSE, msg |-> <<>>, data |-> data, result |-> NoResult]
DetailsReturns(result) == [raise |-> FALSE, msg |-> <<>>, data |-> NoData, result |-> result]
NoAnswer == [raise |-> FALSE, msg |-> <<>>, data |-> NoData, result |-> NoResult]

NoMemo == [query |-> None, search |-> NoAnswer, details |-> NoAnswer]

\* The service answers a query it was asked for this row before as it did
\* then; any other query it answers freely.
SearchAnswers(i, query) ==
    IF memo[i].query = query THEN {memo[i].search}
    ELSE {Raises(m) : m \in Msgs} \cup {SearchReturns(d) : d \in SearchData}

DetailsAnswers(i) ==
    IF memo[i].details # NoAnswer THEN {memo[i].details}
    ELSE {Raises(m) : m \in Msgs} \cup {DetailsReturns(r) : r \in DetailsData}

Event(ev, row) == [ev |-> ev, row |-> row]

\* ----------------------------------------------------------------- Init
InitWith(files, keys, exts, contexts) ==
    /\ argv \in [api_key : keys, in_ext : exts, out_ext : exts, context : contexts]
    /\ infile \in files
    /\ outfile = NoTable
    /\ df = NoTable
    /\ pc = "main"
    /\ idx = 0
    /\ pid = None
    /\ exit = ""
    /\ log = <<>>
    /\ run = 1
    /\ prevOut = NoTable
    /\ memo = [i \in 1..Len(infile.rows) |-> NoMemo]
    /\ acIn = <<>>
    /\ acOut = NoTable

Init == InitWith(InputFiles(MaxRows, Cities), ApiKeys, Exts, Contexts)

\* -------------------------------------------------------------- actions
\* The process ends: its memory is gone, the files and the log stay.  What
\* the service answered is kept for the run that may follow a run that
\* ended well.
Exit(how) ==
    /\ pc' = "exit"
    /\ exit' = how
    /\ df' = NoTable
    /\ idx' = 0
    /\ pid' = None
    /\ memo' = IF how = "ok" THEN memo ELSE [i \in DOMAIN memo |-> NoMemo]

\* Mutant: the call is tried again, the row is not left.
except_clause_retries(req, msg) ==
    /\ log' = log \o <<Event(req, idx), Event("raise", idx)>>
    /\ pc' = "row"
    /\ UNCHANGED df

\* except Exception as exc, for the request req that raised exc(msg): the
\* status, then on to the delay.
except_clause(req, msg) ==
    /\ df' = at(df, idx, "status", error_status(msg))
    /\ log' = log \o <<Event(req, idx), Event("raise", idx), Event("final", idx)>>
    /\ pc' = "sleep"

\* for idx, row in df.iterrows(): the next row, or the end of the loop.
loop_pc(i) == IF i <= Len(df.rows) THEN "row" ELSE "write"

\* main up to the call of enrich_file.
Main ==
    /\ pc = "main"
    /\ IF ~truthy(argv.api_key)
       THEN Exit("SystemExit: api key")
       ELSE pc' = "load" /\ UNCHANGED <<df, idx, pid, exit, memo>>
    /\ UNCHANGED <<argv, infile, outfile, log, run, prevOut, acIn, acOut>>

\* enrich_file up to the batch loop.
Load ==
    /\ pc = "load"
    /\ IF argv.in_ext \notin {".csv", ".xlsx", ".xls"}
       THEN Exit("SystemExit: input type")
       ELSE LET cleaned == clean_input_dataframe(read_table(infile))
            IN  IF "Company Name" \notin cleaned.cols
                THEN Exit("SystemExit: company column")
                ELSE /\ df' = add_output_columns(cleaned, OutputCols)
                     /\ idx' = 1
                     /\ pc' = IF Len(cleaned.rows) >= 1 THEN "row" ELSE "write"
                     /\ UNCHANGED <<pid, exit, memo>>
    /\ UNCHANGED <<argv, infile, outfile, log, run, prevOut, acIn, acOut>>

Query == build_query(df.rows[idx], "Company Name", argv.context)

\* Mutant: the empty query does not skip the delay.
EmptyNameDelays ==
    /\ pc = "row"
    /\ ~truthy(Query)
    /\ df' = at(df, idx, "status", S_EMPTY_NAME)
    /\ log' = Append(log, Event("final", idx))
    /\ pc' = "sleep"
    /\ UNCHANGED <<argv, infile, outfile, idx, pid, exit, run, prevOut, memo, acIn, acOut>>

\* One iteration whose query is empty: the status, then continue.
EmptyName ==
    /\ pc = "row"
    /\ ~truthy(Query)
    /\ df' = at(df, idx, "status", S_EMPTY_NAME)
    /\ log' = Append(log, Event("final", idx))
    /\ idx' = idx + 1
    /\ pc' = loop_pc(idx + 1)
    /\ UNCHANGED <<argv, infile, outfile, pid, exit, run, prevOut, memo, acIn, acOut>>

\* One iteration with a query, up to the return of text_search.
TextSearch ==
    /\ pc = "row"
    /\ truthy(Query)
    /\ \E ans \in SearchAnswers(idx, Query) :
          /\ memo' = [memo EXCEPT ![idx] =
                         IF memo[idx].query = Query THEN @
                         ELSE [query |-> Query, search |-> ans, details |-> NoAnswer]]
          /\ IF ans.raise
             THEN /\ except_clause("search", ans.msg)
                  /\ UNCHANGED pid
             ELSE IF truthy(text_search(ans.data))
             THEN /\ pid' = text_search(ans.data)
                  /\ log' = Append(log, Event("search", idx))
                  /\ pc' = "details"
                  /\ UNCHANGED df
             ELSE /\ df' = at(df, idx, "status", S_NOT_FOUND)
                  /\ log' = log \o <<Event("search", idx), Event("final", idx)>>
                  /\ pc' = "sleep"
                  /\ UNCHANGED pid
    /\ UNCHANGED <<argv, infile, outfile, idx, exit, run, prevOut, acIn, acOut>>

\* The row's seven assignments after place_details returned.
store_details(d, i, det) ==
    at(at(at(at(at(at(at(d,
        i, "phone_number", orEmpty(det.phone)),
        i, "domain", orEmpty(det.domain)),
        i, "street", det.address.street),
        i, "city", det.address.city),
        i, "zip_code", det.address.zip_code),
        i, "country", det.address.country),
        i, "status", classify(det.phone, det.domain, det.address))

\* The rest of the iteration when text_search returned an identifier.
Details ==
    /\ pc = "details"
    /\ \E ans \in DetailsAnswers(idx) :
          /\ memo' = [memo EXCEPT ![idx].details = ans]
          /\ IF ans.raise
             THEN except_clause("details", ans.msg)
             ELSE /\ df' = store_details(df, idx, place_details(ans.result))
                  /\ log' = log \o <<Event("details", idx), Event("final", idx)>>
                  /\ pc' = "sleep"
    /\ pid' = None
    /\ UNCHANGED <<argv, infile, outfile, idx, exit, run, prevOut, acIn, acOut>>

\* time.sleep(sleep_seconds), the last statement of the iteration.
Sleep ==
    /\ pc = "sleep"
    /\ log' = Append(log, Event("sleep", idx))
    /\ idx' = idx + 1
    /\ pc' = loop_pc(idx + 1)
    /\ UNCHANGED <<argv, infile, outfile, df, pid, exit, run, prevOut, memo, acIn, acOut>>

\* enrich_file after the loop, and main's else branch.
Write ==
    /\ pc = "write"
    /\ IF argv.out_ext \in {".csv", ".xlsx", ".xls"}
       THEN /\ outfile' = write_table(df)
            /\ log' = Append(log, Event("write", 0))
            /\ Exit("ok")
       ELSE /\ Exit("SystemExit: output type")
            /\ UNCHANGED <<outfile, log>>
    /\ UNCHANGED <<argv, infile, run, prevOut, acIn, acOut>>

\* Mutant: the interrupted run saves what it has.
InterruptFlushes ==
    /\ pc \in {"load", "row", "details", "sleep", "write"}
    /\ outfile' = write_table(df)
    /\ log' = Append(log, Event("write", 0))
    /\ Exit("KeyboardInterrupt")
    /\ UNCHANGED <<argv, infile, run, prevOut, acIn, acOut>>

\* KeyboardInterrupt while enrich_file runs: no handler of enrich_file
\* catches it (except Exception does not), main exits.
Interrupt ==
    /\ pc \in {"load", "row", "details", "sleep", "write"}
    /\ Exit("KeyboardInterrupt")
    /\ UNCHANGED <<argv, infile, outfile, log, run, prevOut, acIn, acOut>>

\* The program is run again on the file it wrote, with the same options.
Rerun ==
    /\ pc = "exit"
    /\ exit = "ok"
    /\ run < MaxRuns
    /\ run' = run + 1
    /\ argv' = [argv EXCEPT !.in_ext = argv.out_ext]
    /\ infile' = outfile
    /\ prevOut' = outfile
    /\ pc' = "main"
    /\ exit' = ""
    /\ log' = <<>>
    /\ UNCHANGED <<outfile, df, idx, pid, memo, acIn, acOut>>

Next ==
    \/ Main
    \/ Load
    \/ EmptyName
    \/ TextSearch
    \/ Details
    \/ Sleep
    \/ Write
    \/ Interrupt

Spec == Init /\ [][Next]_vars

\* Reruns: the program run up to MaxRuns times, each run on the file the
\* run before wrote, started with a credential and supported file types.
InitRerun == InitWith(InputFiles(MaxRerunRows, RerunCities), {<<"k">>}, {".csv"}, RerunContexts)

NextRerun ==
    \/ Next
    \/ Rerun

SpecRerun == InitRerun /\ [][NextRerun]_vars

\* The address normalizer alone, on every list of up to MaxComps components.
CompTypes ==
    {{"street_number"}, {"route"}, {"locality", "political"}, {"postal_code"},
     {"country", "political"}, {"political"}, {"route", "locality"}}

CompNames == {<<"x">>, <<"y">>}

Comps == {Comp(t, nm) : t \in CompTypes, nm \in CompNames}

InitAddr ==
    /\ acIn \in UNION {[1..n -> Comps] : n \in 0..MaxComps}
    /\ acOut = NoTable
    /\ argv = [api_key |-> None, in_ext |-> "", out_ext |-> "", context |-> <<>>]
    /\ infile = NoTable
    /\ outfile = NoTable
    /\ df = NoTable
    /\ pc = "idle"
    /\ idx = 0
    /\ pid = None
    /\ exit = ""
    /\ log = <<>>
    /\ run = 1
    /\ prevOut = NoTable
    /\ memo = <<>>

Normalize ==
    /\ pc = "idle"
    /\ acOut = NoTable
    /\ acOut' = extract_address_components(acIn)
    /\ UNCHANGED <<argv, infile, outfile, df, pc, idx, pid, exit, log, run, prevOut,
                   memo, acIn>>

SpecAddr == InitAddr /\ [][Normalize]_vars

\* ------------------------------------------------------------ the claims
\* What the log of the run says about row i.
EventsOf(ev, i) == {k \in DOMAIN log : log[k] = Event(ev, i)}
Searched(i) == EventsOf("search", i) # {}
Fetched(i) == EventsOf("details", i) # {}
Raised(i) == EventsOf("raise", i) # {}
Final(i) == EventsOf("final", i) # {}
Slept(i) == EventsOf("sleep", i) # {}
Requests == {k \in DOMAIN log : log[k].ev \in {"search", "details"}}
Writes == {k \in DOMAIN log : log[k].ev = "write"}

\* The DataFrame is live: the process is in the batch loop or just past it.
InRun == pc \in {"row", "details", "sleep", "write"}
Rows == DOMAIN df.rows
Status(i) == df.rows[i]["status"]
EmptyCell(v) == v = S_empty \/ v = NaN

\* C1: a record whose company name is empty after trimming gets the status
\* EMPTY_NAME and causes no text-search and no details request, whatever
\* its context fields hold.
C1_EmptyNameSkipped ==
    InRun =>
        \A i \in Rows :
            (Final(i) /\ strip(str(df.rows[i]["Company Name"])) = S_empty)
                => /\ Status(i) = S_EMPTY_NAME
                   /\ ~Searched(i)
                   /\ ~Fetched(i)

\* C2: when a call for record i raises, the record's status starts with
\* "ERROR:" and is at most 250 characters long, the run goes on (the record
\* is final, the loop is at its delay or past it, and a run that reaches
\* the end has given every record a status), and a record whose calls did
\* not raise has a status that does not start with "ERROR:".
C2_FaultContained ==
    /\ InRun =>
          \A i \in Rows :
              /\ Raised(i) =>
                    /\ Final(i)
                    /\ startswith(Status(i), S_ERROR)
                    /\ Len(Status(i)) <= StatusWidth
                    /\ (idx = i /\ pc = "sleep") \/ idx > i
              /\ (Final(i) /\ ~Raised(i)) => ~startswith(Status(i), S_ERROR)
    /\ (pc = "write" \/ exit = "ok") => \A i \in DOMAIN infile.rows : Final(i)
    /\ \A i \in DOMAIN infile.rows : Raised(i) => exit \in {"", "ok", "KeyboardInterrupt", "SystemExit: output type"}

\* C2's case: record i raised with a message that had to be cut, and the
\* record after it was processed without a fault.
C2_Witness ==
    /\ InRun
    /\ \E i \in Rows :
          /\ Raised(i) /\ Len(Status(i)) = StatusWidth
          /\ i + 1 \in Rows /\ Final(i + 1) /\ ~Raised(i + 1)
          /\ Status(i + 1) = S_OK

\* C3: after a details call that did not raise, the status is OK exactly
\* when the phone, the domain or one of street, city, zip_code, country
\* the record now holds is non-empty, and PARTIAL otherwise.
C3_Classification ==
    InRun =>
        \A i \in Rows :
            (Final(i) /\ Fetched(i) /\ ~Raised(i)) =>
                /\ Status(i) \in {S_OK, S_PARTIAL}
                /\ Status(i) = S_OK <=>
                       \E c \in DetailCols : ~EmptyCell(df.rows[i][c])

\* C3's case: one record OK on its address alone, another PARTIAL.
C3_Witness ==
    /\ InRun
    /\ \E i, j \in Rows :
          /\ Final(i) /\ Fetched(i) /\ Status(i) = S_PARTIAL
          /\ Final(j) /\ Fetched(j) /\ Status(j) = S_OK
          /\ df.rows[j]["phone_number"] = S_empty
          /\ df.rows[j]["domain"] = S_empty
          /\ df.rows[j]["city"] = <<"B">>

\* C4: a record whose text search returned no identifier has the status
\* NOT_FOUND and six empty detail fields, whatever the input table held.
C4_NotFoundEmpty ==
    InRun =>
        \A i \in Rows :
            (Final(i) /\ Searched(i) /\ ~Fetched(i) /\ ~Raised(i)) =>
                /\ Status(i) = S_NOT_FOUND
                /\ \A c \in DetailCols : EmptyCell(df.rows[i][c])

\* The positions of acIn whose component counts for a role: the role of a
\* component is the first of these tags that its types hold.
RoleOrder == <<"street_number", "route", "locality", "postal_code", "country">>

HasRole(comp, k) ==
    /\ RoleOrder[k] \in comp.types
    /\ \A j \in 1..(k - 1) : RoleOrder[j] \notin comp.types

InRole(k) == {i \in DOMAIN acIn : HasRole(acIn[i], k)}
First(S) == CHOOSE i \in S : \A j \in S : i <= j
Last(S) == CHOOSE i \in S : \A j \in S : j <= i
NameAt(S, i) == IF S = {} THEN S_empty ELSE acIn[i].long_name
StreetOf(number, route) ==
    IF number # S_empty /\ route # S_empty THEN number \o S_space \o route
    ELSE number \o route

\* C5: first occurrence wins: city, zip_code and country are the long_name
\* of the first component counting for locality, postal_code and country,
\* and the street is built from the first street_number and the first
\* route; later components of the same role change nothing.
C5_FirstWins ==
    acOut # NoTable =>
        /\ acOut.city = NameAt(InRole(3), First(InRole(3)))
        /\ acOut.zip_code = NameAt(InRole(4), First(InRole(4)))
        /\ acOut.country = NameAt(InRole(5), First(InRole(5)))
        /\ acOut.street =
               StreetOf(NameAt(InRole(1), First(InRole(1))),
                        NameAt(InRole(2), First(InRole(2))))

\* C5 as amended: last occurrence wins.  A component counts for the first
\* of street_number, route, locality, postal_code, country among its types;
\* city, zip_code and country are the long_name of the last component
\* counting for locality, postal_code and country (empty when there is
\* none), and the street joins the long_name of the last street_number and
\* of the last route with a space, leaving out an absent or empty one.
C5_LastWins ==
    acOut # NoTable =>
        /\ acOut.city = NameAt(InRole(3), Last(InRole(3)))
        /\ acOut.zip_code = NameAt(InRole(4), Last(InRole(4)))
        /\ acOut.country = NameAt(InRole(5), Last(InRole(5)))
        /\ acOut.street =
               StreetOf(NameAt(InRole(1), Last(InRole(1))),
                        NameAt(InRole(2), Last(InRole(2))))

\* C5's case: two components of the same role with different names.
C5_Witness ==
    /\ acOut # NoTable
    /\ \E i, j \in InRole(3) : i < j /\ acIn[i].long_name # acIn[j].long_name
    /\ acOut.city = acIn[Last(InRole(3))].long_name

\* C6: the delay is performed exactly once after each processed record,
\* whatever its outcome.
C6_DelayAfterEveryRecord ==
    InRun =>
        \A i \in Rows : (Final(i) /\ idx > i) => Cardinality(EventsOf("sleep", i)) = 1

\* C6 as amended: the delay is performed exactly once after each record
\* for which a text-search request was issued (NOT_FOUND, OK, PARTIAL,
\* ERROR), after the record's status is set and before anything is done
\* for the next record; a record with the status EMPTY_NAME is followed by
\* no delay.
C6_DelayAfterEveryRequest ==
    InRun =>
        \A i \in Rows :
            /\ Cardinality(EventsOf("sleep", i)) =
                   (IF Searched(i) /\ idx > i THEN 1 ELSE 0)
            /\ (Final(i) /\ idx > i /\ ~Searched(i)) => Status(i) = S_EMPTY_NAME
            /\ (Final(i) /\ Status(i) = S_EMPTY_NAME) => ~Slept(i)
            /\ \A k \in EventsOf("sleep", i) :
                   /\ \E f \in EventsOf("final", i) : f < k
                   /\ \A l \in DOMAIN log : log[l].row > i => k < l

\* C6's case: a record with EMPTY_NAME and no delay, followed by a record
\* that was searched for and delayed.
C6_Witness ==
    /\ InRun
    /\ \E i, j \in Rows :
          /\ i < j /\ j < idx
          /\ Status(i) = S_EMPTY_NAME /\ Final(i) /\ ~Slept(i)
          /\ Status(j) = S_NOT_FOUND /\ Slept(j)

FatalExits ==
    {"SystemExit: api key", "SystemExit: input type", "SystemExit: company column",
     "SystemExit: output type"}

\* C7: a run that ends with a fatal precondition failure has issued no
\* request and written no output.
C7_FatalBeforeEnrichment ==
    exit \in FatalExits => Requests = {} /\ Writes = {}

\* C8: the output is written at most once per run and only after every
\* record was processed, and a run the user interrupted wrote nothing.
C8_WriteOnceAtEnd ==
    /\ Cardinality(Writes) <= 1
    /\ \A k \in Writes :
          /\ k = Len(log)
          /\ \A i \in DOMAIN infile.rows : \E f \in EventsOf("final", i) : f < k
    /\ Writes # {} => exit = "ok"
    /\ exit = "KeyboardInterrupt" => Writes = {} /\ outfile = prevOut
    /\ exit # "ok" => outfile = prevOut

\* C8's case: the user interrupts after a record was enriched.
C8_Witness ==
    /\ exit = "KeyboardInterrupt"
    /\ \E i \in DOMAIN infile.rows : Final(i) /\ Fetched(i) /\ Slept(i)

\* C9: records are processed one at a time in input order; a record causes
\* at most one text search and at most one details request; a details
\* request directly follows the record's own text search, which returned
\* an identifier; and a request for a record is issued only when every
\* record before it has its final status.
C9_Sequential ==
    /\ \A k \in 1..(Len(log) - 1) :
          /\ log[k].ev # "write"
          /\ log[k + 1].ev # "write" => log[k].row <= log[k + 1].row
    /\ \A i \in DOMAIN infile.rows :
          /\ Cardinality(EventsOf("search", i)) <= 1
          /\ Cardinality(EventsOf("details", i)) <= 1
          /\ Cardinality(EventsOf("final", i)) <= 1
    /\ \A k \in Requests :
          /\ log[k].ev = "details" =>
                /\ k > 1
                /\ log[k - 1] = Event("search", log[k].row)
                /\ exit \in {"", "ok"} =>
                       /\ ~memo[log[k].row].search.raise
                       /\ truthy(text_search(memo[log[k].row].search.data))
          /\ \A i \in 1..(log[k].row - 1) : \E f \in EventsOf("final", i) : f < k
          /\ InRun => log[k].row <= idx

\* C9's case: two records, each with a text search and a details request.
C9_Witness ==
    /\ InRun
    /\ \E i, j \in Rows : i < j /\ Fetched(i) /\ Fetched(j) /\ Final(j)

\* C10: a run on the table a previous run wrote, the service answering
\* every query as before, leaves every record's status and detail fields
\* as they were.
C10_Idempotent ==
    (run >= 2 /\ exit = "ok") =>
        \A i \in DOMAIN outfile.rows :
            \A k \in DOMAIN OutputCols :
                outfile.rows[i][OutputCols[k]] = prevOut.rows[i][OutputCols[k]]

====
